---- MODULE Spec2Model ----
(***************************************************************************)
(* Model of scripts/backport.js: the "backport <pr-url> <branches>"        *)
(* command of the jasper chat bot.                                         *)
(*                                                                         *)
(* One behaviour is one invocation of the robot.respond handler.  The      *)
(* handler builds a graph of promises; each action below is one callback   *)
(* of that graph (it runs when the collaborator call it waits for has      *)
(* settled and it starts the next call).  Collaborator calls (GitHub,      *)
(* nodegit, git apply, the file system) may succeed or reject.             *)
(*                                                                         *)
(* Text is modelled as a non-empty sequence of lines, so that the          *)
(* JavaScript string "a\nb" is <<"a", "b">> and "" is <<"">>.  One-line     *)
(* strings (branch names, titles) are TLA+ strings.                        *)
(***************************************************************************)
EXTENDS Integers, Sequences, FiniteSets, TLC

(* ----------------------------- bounds ---------------------------------- *)
MaxTargets == 2
MaxCommits == 2
\* targets of the first invocation when a second one overlaps it
MaxOverlapTargets == 1

BranchNames == {"main", "v1", "v2", "v3"}
BaseRefs == {"main", "v1"}
Numbers == {"7", "42"}
HeadRefs == {"feature-x", "fix"}
\* the pull requests an invocation may name: number and original head ref
PullRequests == {<<"42", "feature-x">>, <<"7", "fix">>}
DefaultBranch == "master"

Person1 == [name |-> "A", email |-> "a@x.com", date |-> "2020-01-01"]
Person2 == [name |-> "B", email |-> "b@y.org", date |-> "2020-02-02"]
CommitPool ==
  { [sha |-> "abc123",
     commit |-> [message |-> <<"Fix bug">>, author |-> Person1, committer |-> Person1]],
    [sha |-> "def456",
     commit |-> [message |-> <<"Add feature", "", "details">>,
                 author |-> Person2, committer |-> Person1]] }

SeqsUpTo(S, n) == UNION { [1..k -> S] : k \in 0..n }

(* ------------------------- text, as JavaScript ------------------------- *)
NL == <<"", "">>

\* a + b on strings
TextCat(a, b) ==
  SubSeq(a, 1, Len(a) - 1) \o <<a[Len(a)] \o b[1]>> \o Tail(b)

\* Array.prototype.join
RECURSIVE Join(_, _)
Join(items, sep) ==
  IF items = <<>> THEN <<"">>
  ELSE IF Len(items) = 1 THEN items[1]
  ELSE TextCat(TextCat(items[1], sep), Join(Tail(items), sep))

\* variant: the block is numbered before the counter is incremented
CommitBlockZeroBased(data, num) ==
  LET commit == data.commit
      author == commit.author
      committer == commit.committer
      msg == << <<"[Commit " \o ToString(num - 1) \o "]">>,
                TextCat(commit.message, NL),
                <<"Original sha: " \o data.sha>>,
                <<"Authored by " \o author.name \o " <" \o author.email
                    \o "> on " \o author.date>>,
                <<"Committed by " \o committer.name \o " <" \o committer.email
                    \o "> on " \o committer.date>> >>
  IN Join(msg, NL)

\* body of the commits.map callback, after num++
CommitBlock(data, num) ==
  LET commit == data.commit
      sha == data.sha
      author == commit.author
      committer == commit.committer
      message == commit.message
      msg == << <<"[Commit " \o ToString(num) \o "]">>,
                TextCat(message, NL),
                <<"Original sha: " \o sha>>,
                <<"Authored by " \o author.name \o " <" \o author.email
                    \o "> on " \o author.date>>,
                <<"Committed by " \o committer.name \o " <" \o committer.email
                    \o "> on " \o committer.date>> >>
  IN Join(msg, NL)

\* commits.map(...) with the counter num captured by the callback
RECURSIVE MapCommits(_, _)
MapCommits(cs, num) ==
  IF cs = <<>> THEN <<>>
  ELSE <<CommitBlock(Head(cs), num + 1)>> \o MapCommits(Tail(cs), num + 1)

BaseCommitMessage(cs) == Join(MapCommits(cs, 0), <<"", "", "">>)

\* variant: the original head ref is left out of the name
BackportBranchNameNoHead(num, target, orig) ==
  "jasper/backport/" \o num \o "-" \o target

BackportBranchName(num, target, orig) ==
  "jasper/backport/" \o num \o "-" \o target \o "-" \o orig

CommitMessage(num, target, base) ==
  TextCat(<<"Backport PR #" \o num \o " to " \o target, "", "">>, base)

PushRefs(branch) ==
  LET ref == "refs/heads/" \o branch IN <<ref \o ":" \o ref>>

IssueTitle(num, target) == "[backport] PR #" \o num \o " to " \o target

\* branches.join(', ')
RECURSIVE JoinNames(_)
JoinNames(s) ==
  IF s = <<>> THEN ""
  ELSE IF Len(s) = 1 THEN s[1]
  ELSE s[1] \o ", " \o JoinNames(Tail(s))

SuccessMessage(num, bs) ==
  "Backported pull request #" \o num \o " to " \o JoinNames(bs)

Includes(s, x) == \E i \in 1..Len(s) : s[i] = x

(* ------------------------------- state --------------------------------- *)
VARIABLES
  branches,               \* allBranches.split(/\s+/)
  number,                 \* PR number taken from the URL
  info,                   \* result of getInfo(pr)
  commits,                \* result of getCommits(pr)
  pc,                     \* position of the handler's main promise chain
  baseCommitMessage,      \* <<>> until computed
  diffFile,               \* state of the diffFile promise
  diffGets,               \* number of requestGet(info.diff_url) calls
  tmpFile,                \* "none", "exists", "released", "cleanup threw"
  cleanupTmp,             \* "noop" or "cleanup"
  repoLog,                \* source-control calls started, in order
  tpc,                    \* per target: position of its reduce link
  held,                   \* per target: value the pending call was given
  localBranches,          \* branch name -> commit, in the shared checkout
  HEAD,                   \* branch HEAD points at
  commitsMade,            \* commits created by repo.createCommit
  applyResult,            \* per target: what git apply reported
  branchesWithConflicts,
  ppc,                    \* per target: state of its push
  remoteRefs,             \* ref-specs pushed to origin
  pub,                    \* per target: state of its publishing chain
  issueParams,            \* per target: params given to createIssue
  issues,                 \* issues created
  prs,                    \* pull requests created
  sent,                   \* res.send messages
  emitted,                \* robot.emit('error', err) messages
  opc,                    \* a second invocation on the same checkout:
                          \* "absent", or the position of its target's link
  oheld                   \* value the second invocation's pending call holds

inputVars == <<branches, number, info, commits>>
diffVars == <<diffFile, diffGets, tmpFile, cleanupTmp>>
repoVars == <<localBranches, HEAD, commitsMade>>
targetVars == <<tpc, held, applyResult, branchesWithConflicts>>
pushVars == <<ppc, remoteRefs>>
pubVars == <<pub, issueParams, issues, prs>>
outVars == <<sent, emitted>>
otherVars == <<opc, oheld>>
vars == <<inputVars, otherVars, pc, baseCommitMessage, diffVars, repoLog, repoVars,
          targetVars, pushVars, pubVars, outVars>>

N == Len(branches)
Idx == 1..N

OriginTip(target) == [tip |-> "origin/" \o target]
Call(op, i, arg) == [op |-> op, i |-> i, arg |-> arg]

InitRun ==
  /\ branches \in SeqsUpTo(BranchNames, MaxTargets) \ {<<>>}
  /\ number \in Numbers
  /\ info \in [base : [ref : BaseRefs], head : [ref : HeadRefs],
               merged : BOOLEAN, merged_by : [login : {"alice"}]]
  /\ <<number, info.head.ref>> \in PullRequests
  /\ commits \in SeqsUpTo(CommitPool, MaxCommits)
  /\ pc = "info"
  /\ baseCommitMessage = <<>>
  /\ diffFile = "notstarted"
  /\ diffGets = 0
  /\ tmpFile = "none"
  /\ cleanupTmp = "noop"
  /\ repoLog = <<>>
  /\ tpc = [i \in Idx |-> "wait"]
  /\ held = [i \in Idx |-> <<>>]
  /\ localBranches = [b \in {DefaultBranch} |-> OriginTip(DefaultBranch)]
  /\ HEAD = DefaultBranch
  /\ commitsMade = <<>>
  /\ applyResult = [i \in Idx |-> "none"]
  /\ branchesWithConflicts = <<>>
  /\ ppc = [i \in Idx |-> "wait"]
  /\ remoteRefs = {}
  /\ pub = [i \in Idx |-> "wait"]
  /\ issueParams = [i \in Idx |-> <<>>]
  /\ issues = <<>>
  /\ prs = <<>>
  /\ sent = <<>>
  /\ emitted = <<>>

\* one invocation of the handler, alone on the checkout
Init ==
  /\ InitRun
  /\ opc = "absent"
  /\ oheld = <<>>

\* what a run has built so far: local branches and commits, pushed refs,
\* issues and pull requests
keptVars == <<localBranches, HEAD, commitsMade, remoteRefs, issues, prs>>

\* variant: the handler deletes the derived branches of the failed run
CatchRollback(err) ==
  /\ emitted' = Append(emitted, err)
  /\ pc' = "done"
  /\ sent' = sent
  /\ localBranches' = [b \in {DefaultBranch} |-> localBranches[DefaultBranch]]
  /\ HEAD' = DefaultBranch
  /\ UNCHANGED <<commitsMade, remoteRefs, issues, prs>>

\* .catch(err => robot.emit('error', err)) for a rejection of the main chain:
\* the handler emits and does nothing else
Catch(err) ==
  /\ emitted' = Append(emitted, err)
  /\ pc' = "done"
  /\ sent' = sent
  /\ UNCHANGED keptVars

\* a rejection that arrives when the chain has already settled
AlreadyCaught == UNCHANGED <<pc, outVars, keptVars>>

(* ----------------------- PRInspector, validation ----------------------- *)
\* variant: only the first target is compared with the base ref
ValidationErrorFirstTarget(bs, inf) ==
  IF bs[1] = inf.base.ref
    THEN "Cannot backport into original PR target branch"
  ELSE IF ~inf.merged
    THEN "Cannot backport unmerged pull requests"
  ELSE ""

\* variant: the merged flag is not looked at
ValidationErrorIgnoreMerged(bs, inf) ==
  IF Includes(bs, inf.base.ref)
    THEN "Cannot backport into original PR target branch"
  ELSE ""

\* the two throws at the head of the handler; "" when neither fires
ValidationError(bs, inf) ==
  IF Includes(bs, inf.base.ref)
    THEN "Cannot backport into original PR target branch"
  ELSE IF ~inf.merged
    THEN "Cannot backport unmerged pull requests"
  ELSE ""

\* Promise.all([getInfo(pr), getCommits(pr)]) rejects
InfoRejected ==
  /\ pc = "info"
  /\ Catch("getInfo/getCommits failed")
  /\ UNCHANGED <<inputVars, otherVars, baseCommitMessage, diffVars, repoLog,
                 targetVars, ppc, pub, issueParams>>

\* the .then(([info, commits]) => ...) callback, up to the openOrClone call
Validate ==
  /\ pc = "info"
  /\ LET err == ValidationError(branches, info) IN
     IF err # ""
       THEN /\ Catch(err)
            /\ UNCHANGED <<baseCommitMessage, diffVars, repoLog>>
       ELSE /\ baseCommitMessage' = BaseCommitMessage(commits)
            /\ diffFile' = "get"
            /\ diffGets' = diffGets + 1
            /\ repoLog' = Append(repoLog, Call("openOrClone", 0, ""))
            /\ pc' = "open"
            /\ UNCHANGED <<tmpFile, cleanupTmp, outVars, keptVars>>
  /\ UNCHANGED <<inputVars, otherVars, targetVars, ppc, pub, issueParams>>

(* ------------------------------ DiffFetcher ---------------------------- *)
\* requestGet resolved: res.body, then tmpFile({prefix}) is called
DiffBody ==
  /\ diffFile = "get"
  /\ diffFile' = "tmp"
  /\ UNCHANGED <<inputVars, otherVars, pc, baseCommitMessage, diffGets, tmpFile,
                 cleanupTmp, repoLog, repoVars, targetVars, pushVars,
                 pubVars, outVars>>

\* tmpFile resolved: cleanupTmp = cleanup, writeFile(path, diff) is called
DiffTmp ==
  /\ diffFile = "tmp"
  /\ tmpFile' = "exists"
  /\ cleanupTmp' = "cleanup"
  /\ diffFile' = "write"
  /\ UNCHANGED <<inputVars, otherVars, pc, baseCommitMessage, diffGets, repoLog,
                 repoVars, targetVars, pushVars, pubVars, outVars>>

\* writeFile resolved: diffFile resolves with path
DiffWritten ==
  /\ diffFile = "write"
  /\ diffFile' = "ready"
  /\ UNCHANGED <<inputVars, otherVars, pc, baseCommitMessage, diffGets, tmpFile,
                 cleanupTmp, repoLog, repoVars, targetVars, pushVars,
                 pubVars, outVars>>

\* requestGet, tmpFile or writeFile rejects: diffFile is a rejected promise
DiffRejected ==
  /\ diffFile \in {"get", "tmp", "write"}
  /\ diffFile' = "failed"
  /\ UNCHANGED <<inputVars, otherVars, pc, baseCommitMessage, diffGets, tmpFile,
                 cleanupTmp, repoLog, repoVars, targetVars, pushVars,
                 pubVars, outVars>>

(* ------------------- openOrClone, fetch (main chain) ------------------- *)
\* openOrClone resolved: the reduce is built, repo.fetch('origin') is called
OpenResolved ==
  /\ pc = "open"
  /\ repoLog' = Append(repoLog, Call("fetch", 0, "origin"))
  /\ pc' = "fetch"
  /\ UNCHANGED <<inputVars, otherVars, baseCommitMessage, diffVars, repoVars,
                 targetVars, pushVars, pubVars, outVars>>

\* repo.fetch resolved: the first link of the reduce may run
FetchResolved ==
  /\ pc = "fetch"
  /\ pc' = "targets"
  /\ UNCHANGED <<inputVars, otherVars, baseCommitMessage, diffVars, repoLog, repoVars,
                 targetVars, pushVars, pubVars, outVars>>

\* openOrClone, repo.fetch or repo.getRemote rejects
MainRejected ==
  /\ pc \in {"open", "fetch", "remote"}
  /\ Catch(pc \o " failed")
  /\ UNCHANGED <<inputVars, otherVars, baseCommitMessage, diffVars, repoLog,
                 targetVars, ppc, pub, issueParams>>

(* --------------------------- BranchBackporter -------------------------- *)
\* branches.reduce((promise, target) => promise.then(...), repo.fetch(...)):
\* the link of target i hangs on the promise of target i-1
\* variant: a rejected step is swallowed, the link resolves all the same
LinkResolvedSwallow(i) == tpc[i] \in {"committed", "failed"}

\* variant: the chain is not returned, so the link resolves once started
LinkResolvedNoReturn(i) == tpc[i] # "wait"

\* the promise returned by the reduce callback of target i resolves when
\* its createCommit has resolved
LinkResolved(i) == tpc[i] = "committed"

\* variant: the link resolves when createCommit is called, not when it
\* has resolved
PrevResolvedBeforeCommit(i) ==
  IF i = 1 THEN pc = "targets" ELSE tpc[i - 1] \in {"commit", "committed"}

PrevResolved(i) ==
  IF i = 1 THEN pc = "targets" ELSE LinkResolved(i - 1)

BackportBranch(i) == BackportBranchName(number, branches[i], info.head.ref)

\* variant: a step may be issued again instead of moving on
StepRetry(i, from, to, op, arg) ==
  /\ tpc[i] = from
  /\ \E t \in {from, to} : tpc' = [tpc EXCEPT ![i] = t]
  /\ repoLog' = Append(repoLog, Call(op, i, arg))

Step(i, from, to, op, arg) ==
  /\ tpc[i] = from
  /\ tpc' = [tpc EXCEPT ![i] = to]
  /\ repoLog' = Append(repoLog, Call(op, i, arg))

\* .then(() => repo.getReferenceCommit(`origin/${target}`))
GetReferenceCommit(i) ==
  /\ PrevResolved(i)
  /\ Step(i, "wait", "resolve", "getReferenceCommit", "origin/" \o branches[i])
  /\ UNCHANGED <<inputVars, otherVars, pc, baseCommitMessage, diffVars, repoVars, held,
                 applyResult, branchesWithConflicts, pushVars, pubVars, outVars>>

\* .then(commit => repo.createBranch(backportBranch, commit))
CreateBranch(i) ==
  /\ Step(i, "resolve", "create", "createBranch", BackportBranch(i))
  /\ held' = [held EXCEPT ![i] = OriginTip(branches[i])]
  /\ UNCHANGED <<inputVars, otherVars, pc, baseCommitMessage, diffVars, repoVars,
                 applyResult, branchesWithConflicts, pushVars, pubVars, outVars>>

\* createBranch (no force) made the branch;
\* .then(() => repo.checkoutBranch(backportBranch))
CheckoutBranch(i) ==
  /\ BackportBranch(i) \notin DOMAIN localBranches
  /\ Step(i, "create", "checkout", "checkoutBranch", BackportBranch(i))
  /\ localBranches' =
       [b \in DOMAIN localBranches \cup {BackportBranch(i)} |->
          IF b = BackportBranch(i) THEN held[i] ELSE localBranches[b]]
  /\ UNCHANGED <<inputVars, otherVars, pc, baseCommitMessage, diffVars, HEAD, commitsMade,
                 held, applyResult, branchesWithConflicts, pushVars, pubVars,
                 outVars>>

\* checkoutBranch moved HEAD; .then(() => diffFile) waits for the diff
AwaitDiff(i) ==
  /\ tpc[i] = "checkout"
  /\ tpc' = [tpc EXCEPT ![i] = "diff"]
  /\ HEAD' = BackportBranch(i)
  /\ UNCHANGED <<inputVars, otherVars, pc, baseCommitMessage, diffVars, repoLog,
                 localBranches, commitsMade, held, applyResult,
                 branchesWithConflicts, pushVars, pubVars, outVars>>

\* .then(path => new Promise(... execFile('git', ['apply', '--3way', path])
Apply(i) ==
  /\ diffFile = "ready"
  /\ Step(i, "diff", "apply", "apply", "")
  /\ UNCHANGED <<inputVars, otherVars, pc, baseCommitMessage, diffVars, repoVars, held,
                 applyResult, branchesWithConflicts, pushVars, pubVars, outVars>>

\* variant: every error of git apply rejects, conflicts included
ApplyRejectsAnyError(result) == result # "clean"

\* if (err) { if (!CONFLICTS_REGEX.test(err.message)) return reject(err);
\* result is "clean" (no err), "conflict" (err matching) or "error"
ApplyRejects(result) == result = "error"

\* if (err) { ...; branchesWithConflicts.push(target); }
ApplyConflicts(bwc, target, result) ==
  IF result = "conflict" THEN Append(bwc, target) ELSE bwc

\* the execFile callback; on resolve, .then(() => repo.index())
ApplyCallback(i) ==
  /\ tpc[i] = "apply"
  /\ \E result \in {"clean", "conflict", "error"} :
       /\ applyResult' = [applyResult EXCEPT ![i] = result]
       /\ IF ApplyRejects(result)
            THEN /\ tpc' = [tpc EXCEPT ![i] = "failed"]
                 /\ IF pc = "done" THEN AlreadyCaught
                    ELSE Catch("git apply failed")
                 /\ UNCHANGED <<repoLog, branchesWithConflicts>>
            ELSE /\ branchesWithConflicts' =
                      ApplyConflicts(branchesWithConflicts, branches[i], result)
                 /\ Step(i, "apply", "index", "index", "")
                 /\ UNCHANGED <<pc, outVars, keptVars>>
  /\ UNCHANGED <<inputVars, otherVars, baseCommitMessage, diffVars, held, ppc, pub,
                 issueParams>>

\* .then(index => index.addAll('.')
IndexAddAll(i) ==
  /\ Step(i, "index", "addAll", "addAll", ".")
  /\ UNCHANGED <<inputVars, otherVars, pc, baseCommitMessage, diffVars, repoVars, held,
                 applyResult, branchesWithConflicts, pushVars, pubVars, outVars>>

\* .then(() => index.write())
IndexWrite(i) ==
  /\ Step(i, "addAll", "write", "write", "")
  /\ UNCHANGED <<inputVars, otherVars, pc, baseCommitMessage, diffVars, repoVars, held,
                 applyResult, branchesWithConflicts, pushVars, pubVars, outVars>>

\* .then(() => index.writeTree())
IndexWriteTree(i) ==
  /\ Step(i, "write", "writeTree", "writeTree", "")
  /\ UNCHANGED <<inputVars, otherVars, pc, baseCommitMessage, diffVars, repoVars, held,
                 applyResult, branchesWithConflicts, pushVars, pubVars, outVars>>

\* .then(treeOid => Promise.all([repo.getHeadCommit(), getSignature()])
GetHeadCommit(i) ==
  /\ Step(i, "writeTree", "head", "getHeadCommit", "")
  /\ UNCHANGED <<inputVars, otherVars, pc, baseCommitMessage, diffVars, repoVars, held,
                 applyResult, branchesWithConflicts, pushVars, pubVars, outVars>>

\* .then(([parent, signature]) => repo.createCommit('HEAD', ..., [parent]))
CreateCommit(i) ==
  /\ Step(i, "head", "commit", "createCommit", "HEAD")
  /\ held' = [held EXCEPT ![i] = localBranches[HEAD]]
  /\ UNCHANGED <<inputVars, otherVars, pc, baseCommitMessage, diffVars, repoVars,
                 applyResult, branchesWithConflicts, pushVars, pubVars, outVars>>

\* createCommit resolved: the branch HEAD points at has the new commit
Committed(i) ==
  /\ tpc[i] = "commit"
  /\ tpc' = [tpc EXCEPT ![i] = "committed"]
  /\ LET c == [parent |-> held[i],
               message |-> CommitMessage(number, branches[i], baseCommitMessage)]
     IN /\ commitsMade' = Append(commitsMade,
                                 [i |-> i, ref |-> HEAD, commit |-> c])
        /\ localBranches' = [localBranches EXCEPT ![HEAD] = c]
  /\ UNCHANGED <<inputVars, otherVars, pc, baseCommitMessage, diffVars, repoLog, HEAD,
                 held, applyResult, branchesWithConflicts, pushVars, pubVars,
                 outVars>>

\* a source-control call of target i rejects, or the awaited diffFile did
TargetRejected(i) ==
  /\ \/ tpc[i] \in {"resolve", "create", "checkout", "index", "addAll",
                    "write", "writeTree", "head", "commit"}
     \/ tpc[i] = "diff" /\ diffFile = "failed"
  /\ tpc' = [tpc EXCEPT ![i] = "failed"]
  /\ IF pc = "done" THEN AlreadyCaught
     ELSE Catch(tpc[i] \o " failed")
  /\ UNCHANGED <<inputVars, otherVars, baseCommitMessage, diffVars, repoLog, held,
                 applyResult, branchesWithConflicts, ppc, pub, issueParams>>

(* ----------------------------- PushCoordinator ------------------------- *)
\* the reduce's promise resolved: .then(() => repo.getRemote('origin'))
GetRemote ==
  /\ pc = "targets"
  /\ LinkResolved(N)
  /\ repoLog' = Append(repoLog, Call("getRemote", 0, "origin"))
  /\ pc' = "remote"
  /\ UNCHANGED <<inputVars, otherVars, baseCommitMessage, diffVars, repoVars,
                 targetVars, pushVars, pubVars, outVars>>

\* getRemote resolved: the ref-specs are mapped and the push reduce is built
RemoteResolved ==
  /\ pc = "remote"
  /\ pc' = "push"
  /\ UNCHANGED <<inputVars, otherVars, baseCommitMessage, diffVars, repoLog, repoVars,
                 targetVars, pushVars, pubVars, outVars>>

\* .reduce((promise, refs) => promise.then(...), Promise.resolve()):
\* the push of branch i hangs on the push of branch i-1
\* variant: a rejected push is swallowed, the link resolves all the same
PushedSwallow(i) == ppc[i] \in {"ok", "failed"}

\* variant: the publishing hangs on the first push only
PushedFirst(i) == ppc[1] = "ok"

\* variant: the callback does not return the push, so the link resolves as
\* soon as the push has been started
PushedNoReturn(i) == ppc[i] \in {"inflight", "ok"}

\* promise.then(() => remote.push(refs, fetchOpts)) resolves when the push
\* it returns has resolved
Pushed(i) == ppc[i] = "ok"

\* variant: the pushes are mapped, not chained
PushPrevParallel(i) == pc = "push"

PushPrev(i) ==
  IF i = 1 THEN pc = "push" ELSE Pushed(i - 1)

\* promise.then(() => remote.push(refs, fetchOpts))
Push(i) ==
  /\ PushPrev(i)
  /\ ppc[i] = "wait"
  /\ ppc' = [ppc EXCEPT ![i] = "inflight"]
  /\ repoLog' = Append(repoLog, Call("push", i, PushRefs(BackportBranch(i))[1]))
  /\ UNCHANGED <<inputVars, otherVars, pc, baseCommitMessage, diffVars, repoVars,
                 targetVars, remoteRefs, pubVars, outVars>>

\* remote.push resolved
PushResolved(i) ==
  /\ ppc[i] = "inflight"
  /\ ppc' = [ppc EXCEPT ![i] = "ok"]
  /\ remoteRefs' = remoteRefs \cup {PushRefs(BackportBranch(i))[1]}
  /\ UNCHANGED <<inputVars, otherVars, pc, baseCommitMessage, diffVars, repoLog, repoVars,
                 targetVars, pubVars, outVars>>

\* remote.push rejected
PushRejected(i) ==
  /\ ppc[i] = "inflight"
  /\ ppc' = [ppc EXCEPT ![i] = "failed"]
  /\ IF pc = "done" THEN AlreadyCaught
     ELSE Catch("push failed")
  /\ UNCHANGED <<inputVars, otherVars, baseCommitMessage, diffVars, repoLog,
                 targetVars, pub, issueParams>>

(* ----------------------------- TrackerPublisher ------------------------ *)
\* variant: one conflict flag for the whole run
LabelsAnyConflict(bwc, target) ==
  IF bwc # <<>> THEN <<"backport", "has conflicts">>
  ELSE <<"backport">>

\* labels: [ 'backport' ], plus 'has conflicts' if includes(...)
Labels(bwc, target) ==
  IF Includes(bwc, target) THEN <<"backport", "has conflicts">>
  ELSE <<"backport">>

IssueParams(i) ==
  [title |-> IssueTitle(number, branches[i]),
   body |-> CommitMessage(number, branches[i], baseCommitMessage),
   assignee |-> info.merged_by.login,
   labels |-> Labels(branchesWithConflicts, branches[i])]

\* the push chain resolved: Promise.all(branches.map(target => createIssue(...
Publish ==
  /\ pc = "push"
  /\ Pushed(N)
  /\ issueParams' = [i \in Idx |-> IssueParams(i)]
  /\ pub' = [i \in Idx |-> "issue"]
  /\ pc' = "publish"
  /\ UNCHANGED <<inputVars, otherVars, baseCommitMessage, diffVars, repoLog, repoVars,
                 targetVars, pushVars, issues, prs, outVars>>

\* createIssue resolved; .then(issue => createPullRequest(githubRepo, params))
IssueCreated(i) ==
  /\ pub[i] = "issue"
  /\ issues' = Append(issues, [number |-> Len(issues) + 1, i |-> i,
                               params |-> issueParams[i]])
  /\ pub' = [pub EXCEPT ![i] = "pr"]
  /\ UNCHANGED <<inputVars, otherVars, pc, baseCommitMessage, diffVars, repoLog, repoVars,
                 targetVars, pushVars, issueParams, prs, outVars>>

\* variant: head and base are exchanged
PullRequestParamsSwapped(issue, i) ==
  [issue |-> issue.number, head |-> branches[i], base |-> BackportBranch(i)]

\* params = { issue: issue.number, head: backportBranch, base: target }
PullRequestParams(issue, i) ==
  [issue |-> issue.number, head |-> BackportBranch(i), base |-> branches[i]]

\* createPullRequest resolved
PullRequestCreated(i) ==
  /\ pub[i] = "pr"
  /\ LET issue == CHOOSE x \in {issues[k] : k \in 1..Len(issues)} : x.i = i
     IN prs' = Append(prs, PullRequestParams(issue, i))
  /\ pub' = [pub EXCEPT ![i] = "done"]
  /\ UNCHANGED <<inputVars, otherVars, pc, baseCommitMessage, diffVars, repoLog, repoVars,
                 targetVars, pushVars, issueParams, issues, outVars>>

\* createIssue or createPullRequest rejected; the first rejection rejects
\* the Promise.all, the other targets' chains keep running
PublishRejected(i) ==
  /\ pub[i] \in {"issue", "pr"}
  /\ pub' = [pub EXCEPT ![i] = "failed"]
  /\ IF pc = "done" THEN AlreadyCaught
     ELSE Catch("publishing failed")
  /\ UNCHANGED <<inputVars, otherVars, baseCommitMessage, diffVars, repoLog,
                 targetVars, ppc, issueParams>>

\* variant: the Promise.all is not returned to the chain
PublishResolvedNoReturn == TRUE

\* return Promise.all(branches.map(...)): resolved when every target's
\* createIssue(...).then(createPullRequest) chain has resolved
PublishResolved == \A i \in Idx : pub[i] = "done"

\* the Promise.all resolved: cleanupTmp(); res.send(...)
Success ==
  /\ pc = "publish"
  /\ PublishResolved
  /\ \E threw \in BOOLEAN :
       /\ threw => cleanupTmp = "cleanup"
       /\ tmpFile' = IF cleanupTmp # "cleanup" THEN tmpFile
                     ELSE IF threw THEN "cleanup threw" ELSE "released"
       /\ IF threw THEN Catch("cleanup failed")
          ELSE /\ sent' = Append(sent, SuccessMessage(number, branches))
               /\ pc' = "done"
               /\ emitted' = emitted
               /\ UNCHANGED keptVars
  /\ UNCHANGED <<inputVars, otherVars, baseCommitMessage, diffFile, diffGets, cleanupTmp,
                 repoLog, targetVars, ppc, pub, issueParams>>

(* ------------------------------------------------------------------------ *)
Next ==
  \/ InfoRejected
  \/ Validate
  \/ DiffBody
  \/ DiffTmp
  \/ DiffWritten
  \/ DiffRejected
  \/ OpenResolved
  \/ FetchResolved
  \/ MainRejected
  \/ \E i \in Idx : GetReferenceCommit(i)
  \/ \E i \in Idx : CreateBranch(i)
  \/ \E i \in Idx : CheckoutBranch(i)
  \/ \E i \in Idx : AwaitDiff(i)
  \/ \E i \in Idx : Apply(i)
  \/ \E i \in Idx : ApplyCallback(i)
  \/ \E i \in Idx : IndexAddAll(i)
  \/ \E i \in Idx : IndexWrite(i)
  \/ \E i \in Idx : IndexWriteTree(i)
  \/ \E i \in Idx : GetHeadCommit(i)
  \/ \E i \in Idx : CreateCommit(i)
  \/ \E i \in Idx : Committed(i)
  \/ \E i \in Idx : TargetRejected(i)
  \/ GetRemote
  \/ RemoteResolved
  \/ \E i \in Idx : Push(i)
  \/ \E i \in Idx : PushResolved(i)
  \/ \E i \in Idx : PushRejected(i)
  \/ Publish
  \/ \E i \in Idx : IssueCreated(i)
  \/ \E i \in Idx : PullRequestCreated(i)
  \/ \E i \in Idx : PublishRejected(i)
  \/ Success

Spec == Init /\ [][Next]_vars

(* ------------- a second invocation on the same checkout ---------------- *)
\* robot.respond runs the handler once per command and openOrClone(repoDir)
\* gives every invocation of one origin repository the same directory: the
\* second invocation below runs the same reduce link, for another pull
\* request, on the localBranches and HEAD of the first.  Nothing in the
\* handler makes one invocation wait for another.
OtherNumber == "99"
OtherHead == "hotfix"
OtherTarget == "v1"
OtherBranch == BackportBranchName(OtherNumber, OtherTarget, OtherHead)

\* the run of Init, with a second handler that has fetched and is about to
\* run the link of its one target
InitTwo ==
  /\ InitRun
  /\ N <= MaxOverlapTargets
  /\ number = "42"
  /\ info.merged
  /\ commits = <<>>
  /\ opc = "wait"
  /\ oheld = <<>>

OtherStep(from, to) ==
  /\ opc = from
  /\ opc' = to

\* .then(() => repo.getReferenceCommit(`origin/${target}`))
OtherGetReferenceCommit ==
  /\ OtherStep("wait", "resolve")
  /\ UNCHANGED <<inputVars, oheld, pc, baseCommitMessage, diffVars, repoLog,
                 repoVars, targetVars, pushVars, pubVars, outVars>>

\* .then(commit => repo.createBranch(backportBranch, commit))
OtherCreateBranch ==
  /\ OtherStep("resolve", "create")
  /\ oheld' = OriginTip(OtherTarget)
  /\ UNCHANGED <<inputVars, pc, baseCommitMessage, diffVars, repoLog,
                 repoVars, targetVars, pushVars, pubVars, outVars>>

\* createBranch made the branch; .then(() => repo.checkoutBranch(...))
OtherCheckoutBranch ==
  /\ OtherBranch \notin DOMAIN localBranches
  /\ OtherStep("create", "checkout")
  /\ localBranches' =
       [b \in DOMAIN localBranches \cup {OtherBranch} |->
          IF b = OtherBranch THEN oheld ELSE localBranches[b]]
  /\ UNCHANGED <<inputVars, oheld, pc, baseCommitMessage, diffVars, repoLog,
                 HEAD, commitsMade, targetVars, pushVars, pubVars, outVars>>

\* checkoutBranch moved the HEAD of the shared checkout; .then(() => diffFile)
OtherAwaitDiff ==
  /\ OtherStep("checkout", "diff")
  /\ HEAD' = OtherBranch
  /\ UNCHANGED <<inputVars, oheld, pc, baseCommitMessage, diffVars, repoLog,
                 localBranches, commitsMade, targetVars, pushVars, pubVars,
                 outVars>>

\* execFile('git', ['apply', '--3way', path], {cwd: repoDir}, ...)
OtherApply ==
  /\ OtherStep("diff", "apply")
  /\ UNCHANGED <<inputVars, oheld, pc, baseCommitMessage, diffVars, repoLog,
                 repoVars, targetVars, pushVars, pubVars, outVars>>

\* the execFile callback: reject(err), or resolve and go on to repo.index()
OtherApplyCallback ==
  /\ opc = "apply"
  /\ \E result \in {"clean", "conflict", "error"} :
       opc' = IF ApplyRejects(result) THEN "failed" ELSE "index"
  /\ UNCHANGED <<inputVars, oheld, pc, baseCommitMessage, diffVars, repoLog,
                 repoVars, targetVars, pushVars, pubVars, outVars>>

\* index.addAll('.'), index.write(), index.writeTree(), getHeadCommit()
OtherIndex ==
  /\ \/ OtherStep("index", "addAll")
     \/ OtherStep("addAll", "write")
     \/ OtherStep("write", "writeTree")
     \/ OtherStep("writeTree", "head")
  /\ UNCHANGED <<inputVars, oheld, pc, baseCommitMessage, diffVars, repoLog,
                 repoVars, targetVars, pushVars, pubVars, outVars>>

\* .then(([parent, signature]) => repo.createCommit('HEAD', ..., [parent]))
OtherCreateCommit ==
  /\ OtherStep("head", "commit")
  /\ oheld' = localBranches[HEAD]
  /\ UNCHANGED <<inputVars, pc, baseCommitMessage, diffVars, repoLog,
                 repoVars, targetVars, pushVars, pubVars, outVars>>

\* createCommit resolved: the branch HEAD points at has the new commit
OtherCommitted ==
  /\ OtherStep("commit", "committed")
  /\ LET c == [parent |-> oheld,
               message |-> CommitMessage(OtherNumber, OtherTarget, <<"">>)]
     IN /\ commitsMade' = Append(commitsMade,
                                 [i |-> 0, ref |-> HEAD, commit |-> c])
        /\ localBranches' = [localBranches EXCEPT ![HEAD] = c]
  /\ UNCHANGED <<inputVars, oheld, pc, baseCommitMessage, diffVars, repoLog,
                 HEAD, targetVars, pushVars, pubVars, outVars>>

\* a source-control call of the second invocation rejects
OtherRejected ==
  /\ opc \in {"resolve", "create", "checkout", "index", "addAll", "write",
              "writeTree", "head", "commit"}
  /\ opc' = "failed"
  /\ UNCHANGED <<inputVars, oheld, pc, baseCommitMessage, diffVars, repoLog,
                 repoVars, targetVars, pushVars, pubVars, outVars>>

NextTwo ==
  \/ Next
  \/ OtherGetReferenceCommit
  \/ OtherCreateBranch
  \/ OtherCheckoutBranch
  \/ OtherAwaitDiff
  \/ OtherApply
  \/ OtherApplyCallback
  \/ OtherIndex
  \/ OtherCreateCommit
  \/ OtherCommitted
  \/ OtherRejected

SpecTwo == InitTwo /\ [][NextTwo]_vars

(* ======================================================================= *)
(*                               properties                                *)
(* ======================================================================= *)
ErrBase == "Cannot backport into original PR target branch"
ErrUnmerged == "Cannot backport unmerged pull requests"
ErrInfo == "getInfo/getCommits failed"

\* nothing was done to the checkout, the remote or the tracker
NoMutation ==
  /\ repoLog = <<>>
  /\ DOMAIN localBranches = {DefaultBranch}
  /\ HEAD = DefaultBranch
  /\ commitsMade = <<>>
  /\ remoteRefs = {}
  /\ \A i \in Idx : tpc[i] = "wait" /\ ppc[i] = "wait" /\ pub[i] = "wait"
  /\ issues = <<>>
  /\ prs = <<>>

\* C1: when the target list contains the PR's base ref, the run fails
\* validation and nothing is mutated or published: the repository is never
\* opened or fetched, no branch is created, no patch applied, no commit made,
\* no push done and no issue or pull request created, for any target.
C1_BaseRefNoMutation ==
  Includes(branches, info.base.ref) =>
    /\ NoMutation
    /\ sent = <<>>
    /\ pc \in {"info", "done"}
    /\ pc = "done" => emitted \in {<<ErrBase>>, <<ErrInfo>>}

C1_Witness ==
  /\ Includes(branches, info.base.ref)
  /\ \E i \in Idx : branches[i] # info.base.ref
  /\ branches[1] # info.base.ref
  /\ info.merged
  /\ pc = "done"
  /\ emitted = <<ErrBase>>

\* C2: when the PR's merged flag is false, the run fails validation before
\* the diff is fetched: the diff download is never invoked and no temporary
\* file, branch, commit, push, issue or pull request is created.
C2_UnmergedNoDiff ==
  ~info.merged =>
    /\ diffGets = 0
    /\ diffFile = "notstarted"
    /\ tmpFile = "none"
    /\ cleanupTmp = "noop"
    /\ NoMutation
    /\ sent = <<>>
    /\ pc \in {"info", "done"}
    /\ pc = "done" => emitted \in {<<ErrUnmerged>>, <<ErrBase>>, <<ErrInfo>>}

C2_Witness ==
  /\ ~info.merged
  /\ ~Includes(branches, info.base.ref)
  /\ pc = "done"
  /\ emitted = <<ErrUnmerged>>
  /\ diffGets = 0

\* the name the specification gives, and the name with the bot's prefix
SpecName(i) ==
  "backport/" \o number \o "-" \o branches[i] \o "-" \o info.head.ref
PrefixedName(i) == "jasper/" \o SpecName(i)

\* the same name is used for branch creation, checkout, push and PR head
NameUsedEverywhere(Name(_)) ==
  /\ \A k \in 1..Len(repoLog) :
       LET e == repoLog[k] IN
       /\ e.op \in {"createBranch", "checkoutBranch"} => e.arg = Name(e.i)
       /\ e.op = "push" =>
            e.arg = "refs/heads/" \o Name(e.i) \o ":refs/heads/" \o Name(e.i)
  /\ \A b \in DOMAIN localBranches \ {DefaultBranch} :
       \E i \in Idx : b = Name(i)
  /\ HEAD # DefaultBranch => \E i \in Idx : HEAD = Name(i)
  /\ \A k \in 1..Len(prs) :
       \E i \in Idx : prs[k].base = branches[i] /\ prs[k].head = Name(i)

Count(S) == Cardinality(S)

\* C4: a run over a merged PR and a target list without the base ref that
\* reports success has produced exactly one derived branch per entry of the
\* list, each created once, committed exactly once and pushed exactly once
\* before the report.
C4_OneBranchPerTarget ==
  sent # <<>> =>
    /\ info.merged
    /\ ~Includes(branches, info.base.ref)
    /\ \A i, j \in Idx : i # j => PrefixedName(i) # PrefixedName(j)
    /\ DOMAIN localBranches = {DefaultBranch} \cup {PrefixedName(i) : i \in Idx}
    /\ Len(commitsMade) = N
    /\ \A i \in Idx :
         /\ Count({k \in 1..Len(repoLog) :
                     repoLog[k].op = "createBranch" /\ repoLog[k].i = i}) = 1
         /\ Count({k \in 1..Len(commitsMade) :
                     commitsMade[k].ref = PrefixedName(i)}) = 1
         /\ Count({k \in 1..Len(repoLog) :
                     repoLog[k].op = "push" /\ repoLog[k].i = i}) = 1
         /\ ppc[i] = "ok"
         /\ ("refs/heads/" \o PrefixedName(i) \o ":refs/heads/" \o PrefixedName(i))
              \in remoteRefs
    /\ Count(remoteRefs) = N

C4_Witness ==
  /\ sent # <<>>
  /\ N = 2
  /\ Len(commitsMade) = 2

HasLabel(issue, l) == Includes(issue.params.labels, l)

\* C5: the issue created for a target carries "has conflicts" exactly when
\* the patch application for that target reported the conflict condition in
\* this run; every issue carries "backport"; a conflict of one target never
\* labels the issue of another.
C5_ConflictLabel ==
  \A k \in 1..Len(issues) :
    /\ HasLabel(issues[k], "backport")
    /\ HasLabel(issues[k], "has conflicts")
         <=> applyResult[issues[k].i] = "conflict"
    /\ issues[k].params.title = "[backport] PR #" \o number \o " to "
                                   \o branches[issues[k].i]

C5_Witness ==
  /\ Len(issues) = 2
  /\ \E k \in 1..2 : HasLabel(issues[k], "has conflicts")
  /\ \E k \in 1..2 : ~HasLabel(issues[k], "has conflicts")

Digits == <<"1", "2", "3", "4", "5", "6", "7", "8", "9">>
MsgLen(i) == Len(commits[i].commit.message)
\* heading, message, blank line, sha, author, committer
BlockLen(i) == MsgLen(i) + 5
RECURSIVE BlockStart(_)
BlockStart(i) ==
  IF i = 1 THEN 1 ELSE BlockStart(i - 1) + BlockLen(i - 1) + 1

\* C6: the consolidated message of a commit sequence of length n is exactly
\* n blocks in commit order; block i is headed "[Commit i]" (counted from 1
\* in every invocation) and carries the i-th commit's message, sha and
\* author/committer name, email and date unchanged; one blank line
\* separates consecutive blocks.
C6_ConsolidatedMessage ==
  baseCommitMessage # <<>> =>
    LET t == baseCommitMessage
        n == Len(commits)
    IN IF n = 0 THEN t = <<"">>
       ELSE
         /\ Len(t) = BlockStart(n) + BlockLen(n) - 1
         /\ \A i \in 1..n :
              LET s == BlockStart(i)
                  c == commits[i]
                  m == MsgLen(i)
              IN /\ t[s] = "[Commit " \o Digits[i] \o "]"
                 /\ SubSeq(t, s + 1, s + m) = c.commit.message
                 /\ t[s + m + 1] = ""
                 /\ t[s + m + 2] = "Original sha: " \o c.sha
                 /\ t[s + m + 3] =
                      "Authored by " \o c.commit.author.name \o " <"
                        \o c.commit.author.email \o "> on "
                        \o c.commit.author.date
                 /\ t[s + m + 4] =
                      "Committed by " \o c.commit.committer.name \o " <"
                        \o c.commit.committer.email \o "> on "
                        \o c.commit.committer.date
                 /\ i < n => t[s + m + 5] = ""

C6_Witness ==
  /\ baseCommitMessage # <<>>
  /\ Len(commits) = 2
  /\ commits[1] # commits[2]
  /\ Len(commits[1].commit.message) > 1

\* the main chain has settled and no callback of the run is pending
RunOver ==
  /\ pc = "done"
  /\ diffFile \notin {"get", "tmp", "write"}
  /\ \A i \in Idx : pub[i] \notin {"issue", "pr"}

\* the ways a run ends that C7 lists: success, or a failed apply, commit,
\* push or issue/pull-request creation
ListedExit ==
  \/ sent # <<>>
  \/ /\ emitted # <<>>
     /\ emitted[1] \in {"git apply failed", "commit failed", "push failed",
                        "publishing failed"}

\* C7: once the temporary diff file has been created, its cleanup has been
\* invoked by the time the run is over, on every exit path: success, an
\* apply failure, a commit failure, a push failure or an issue/pull-request
\* creation failure.
C7_TmpReleased ==
  (RunOver /\ ListedExit /\ tmpFile # "none") =>
    tmpFile \in {"released", "cleanup threw"}

RECURSIVE TargetList(_)
TargetList(k) ==
  IF k = 1 THEN branches[1] ELSE TargetList(k - 1) \o ", " \o branches[k]

Published(i) ==
  /\ \E k \in 1..Len(issues) : issues[k].i = i
  /\ \E k \in 1..Len(prs) : prs[k].base = branches[i]

\* C8: an invocation ends in exactly one of two outcomes, never both: the
\* report "Backported pull request #<number> to <targets joined by ', '>"
\* is sent, and then an issue and a pull request exist for every target; or
\* the error is emitted and no report is sent.  Nothing is reported while the
\* chain is running, and the run stops only with the chain settled.
C8_OneOutcome ==
  /\ Len(sent) + Len(emitted) <= 1
  /\ pc = "done" <=> Len(sent) + Len(emitted) = 1
  /\ sent # <<>> =>
       /\ sent = <<"Backported pull request #" \o number \o " to "
                     \o TargetList(N)>>
       /\ \A i \in Idx : Published(i)
       /\ Len(issues) = N
       /\ Len(prs) = N
  /\ ~(ENABLED Next) => pc = "done"

C8_Witness ==
  /\ pc = "done"
  /\ Len(sent) = 1
  /\ emitted = <<>>
  /\ N = 2
  /\ Len(prs) = 2

Started(i) == tpc[i] # "wait"
TargetOps ==
  {"getReferenceCommit", "createBranch", "checkoutBranch", "apply", "index",
   "addAll", "write", "writeTree", "getHeadCommit", "createCommit"}

\* C9: targets are processed one after the other in list order: no
\* repository step of target k+1 begins before the commit of target k has
\* completed, and no step of the first target begins before the fetch of
\* origin has completed.
C9_Sequential ==
  /\ Started(1) => pc \notin {"info", "open", "fetch"}
  /\ \A k \in Idx : (k > 1 /\ Started(k)) => tpc[k - 1] = "committed"
  /\ \A p, q \in 1..Len(repoLog) :
       (p < q /\ repoLog[q].op \in TargetOps) =>
         /\ repoLog[p].op \in TargetOps \cup {"openOrClone", "fetch"}
         /\ repoLog[p].i <= repoLog[q].i
  /\ \A q \in 1..Len(repoLog) :
       repoLog[q].op \in TargetOps => (q > 2 /\ repoLog[2].op = "fetch")

C9_Witness ==
  /\ N = 2
  /\ tpc[2] = "commit"

InFlight == {i \in Idx : ppc[i] = "inflight"}

\* C10: no push starts before every target is committed; pushes go one at
\* a time in list order: at most one push is in flight, and the push of
\* target k+1 starts only after the push of target k has succeeded.
C10_PushOrder ==
  /\ \A i \in Idx : ppc[i] # "wait" =>
       /\ \A j \in Idx : tpc[j] = "committed"
       /\ i > 1 => ppc[i - 1] = "ok"
  /\ Cardinality(InFlight) <= 1
  /\ \A p, q \in 1..Len(repoLog) :
       (p < q /\ repoLog[p].op = "push") =>
         /\ repoLog[q].op = "push"
         /\ repoLog[p].i < repoLog[q].i

C10_Witness ==
  /\ N = 2
  /\ ppc[1] = "ok"
  /\ ppc[2] = "inflight"

NothingPublished ==
  /\ issues = <<>>
  /\ prs = <<>>
  /\ \A i \in Idx : pub[i] = "wait" /\ issueParams[i] = <<>>

\* C11: when the push of a derived branch fails, no later branch of the
\* list is pushed, no issue and no pull request is created for any target,
\* and the run ends with the error emitted.
C11_PushFailureFatal ==
  \A i \in Idx : ppc[i] = "failed" =>
    /\ \A j \in Idx : j > i => ppc[j] = "wait"
    /\ \A j \in Idx : j < i => ppc[j] = "ok"
    /\ \A k \in 1..Len(repoLog) :
         repoLog[k].op = "push" => repoLog[k].i <= i
    /\ NothingPublished
    /\ pc = "done"
    /\ emitted = <<"push failed">>
    /\ sent = <<>>

C11_Witness ==
  /\ N = 2
  /\ ppc[1] = "failed"
  /\ tpc[2] = "committed"

\* C12: no issue and no pull request is created for any target until the
\* pushes of all targets' derived branches have succeeded.
C12_PublishAfterPushes ==
  ~NothingPublished =>
    \A j \in Idx :
      /\ ppc[j] = "ok"
      /\ \E r \in remoteRefs :
           r = "refs/heads/" \o PrefixedName(j) \o ":refs/heads/"
                 \o PrefixedName(j)

C12_Witness ==
  /\ N = 2
  /\ Len(issues) = 1
  /\ prs = <<>>
  /\ ppc[2] = "ok"

\* C13: when a step of a target fails fatally (resolving origin/<target>,
\* branch creation, checkout, the diff download or write, a non-conflict
\* apply error, staging or commit), no later target is processed, no push
\* is attempted and no issue or pull request is created.
C13_TargetFailureFatal ==
  \A i \in Idx : tpc[i] = "failed" =>
    /\ \A j \in Idx : j > i => tpc[j] = "wait" /\ applyResult[j] = "none"
    /\ \A k \in 1..Len(repoLog) :
         /\ repoLog[k].op \notin {"getRemote", "push"}
         /\ repoLog[k].i <= i
    /\ \A j \in Idx : ppc[j] = "wait"
    /\ remoteRefs = {}
    /\ NothingPublished
    /\ pc = "done"
    /\ Len(emitted) = 1
    /\ sent = <<>>

C13_Witness ==
  /\ N = 2
  /\ tpc[1] = "failed"
  /\ applyResult[1] = "error"
  /\ emitted = <<"git apply failed">>

\* the execFile callback of a conflicting apply resolves: the target goes on
\* to repo.index() and nothing is emitted
ConflictContinues ==
  \A i \in Idx :
    (tpc[i] = "apply" /\ applyResult'[i] = "conflict") =>
      /\ tpc'[i] = "index"
      /\ pc' = pc
      /\ emitted' = emitted
      /\ Includes(branchesWithConflicts', branches[i])
      /\ repoLog' = Append(repoLog, Call("index", i, ""))

\* a reported run delivered its conflicted targets like the clean ones
ConflictedDelivered ==
  sent # <<>> =>
    \A i \in Idx : applyResult[i] = "conflict" =>
      /\ \E k \in 1..Len(repoLog) :
           repoLog[k].op = "addAll" /\ repoLog[k].i = i
      /\ \E k \in 1..Len(commitsMade) : commitsMade[k].ref = PrefixedName(i)
      /\ ppc[i] = "ok"
      /\ \E k \in 1..Len(issues) :
           issues[k].i = i /\ HasLabel(issues[k], "has conflicts")
      /\ \E k \in 1..Len(prs) : prs[k].head = PrefixedName(i)
      /\ \A j \in Idx : j > i => tpc[j] = "committed"

\* C14: a patch conflict on a target is not fatal: the target is still
\* staged, committed and pushed, its issue and pull request are still filed,
\* the later targets are still processed, and the run can end with the
\* success report.
C14_ConflictNotFatal == [][ConflictContinues]_vars /\ []ConflictedDelivered

C14_Witness ==
  /\ sent # <<>>
  /\ N = 2
  /\ applyResult[1] = "conflict"
  /\ applyResult[2] = "clean"
  /\ Len(prs) = 2

FailedPublishing == {i \in Idx : pub[i] = "failed"}

\* C15: when issue or pull-request creation fails for a target, the other
\* targets' publishing is not cut short (each ends created or failed on its
\* own), and once the run is over every failed target has been surfaced to
\* the caller, not only the first one.
C15_AllFailuresSurfaced ==
  (RunOver /\ FailedPublishing # {}) =>
    /\ \A i \in Idx : pub[i] \in {"done", "failed"}
    /\ Len(emitted) = Cardinality(FailedPublishing)

StepOrder ==
  <<"getReferenceCommit", "createBranch", "checkoutBranch", "apply", "index",
    "addAll", "write", "writeTree", "getHeadCommit", "createCommit">>

IsStepOf(i, e) == e.i = i /\ e.op \in TargetOps
StepsOf(i) == SelectSeq(repoLog, LAMBDA e : IsStepOf(i, e))

\* position of a target in Created -> CheckedOut -> PatchApplied -> Committed
Rank(st) ==
  CASE st = "wait" -> 0
    [] st = "resolve" -> 1
    [] st = "create" -> 2
    [] st = "checkout" -> 3
    [] st = "diff" -> 4
    [] st = "apply" -> 5
    [] st = "index" -> 6
    [] st = "addAll" -> 7
    [] st = "write" -> 8
    [] st = "writeTree" -> 9
    [] st = "head" -> 10
    [] st = "commit" -> 11
    [] st = "committed" -> 12
    [] OTHER -> 13

StepsInOrder ==
  \A i \in Idx :
    LET ops == StepsOf(i) IN
    /\ Len(ops) <= Len(StepOrder)
    /\ \A k \in 1..Len(ops) : ops[k].op = StepOrder[k]
    /\ tpc[i] = "wait" <=> ops = <<>>
    /\ tpc[i] = "committed" =>
         /\ Len(ops) = Len(StepOrder)
         /\ applyResult[i] \in {"clean", "conflict"}
         /\ PrefixedName(i) \in DOMAIN localBranches
         /\ Cardinality({k \in 1..Len(commitsMade) :
                           commitsMade[k].ref = PrefixedName(i)}) = 1
    /\ Rank(tpc[i]) \in 1..11 =>
         Len(ops) = (IF Rank(tpc[i]) <= 3 THEN Rank(tpc[i])
                     ELSE Rank(tpc[i]) - 1)

NoStepBack ==
  \A i \in Idx :
    /\ Rank(tpc'[i]) >= Rank(tpc[i])
    /\ tpc[i] \in {"committed", "failed"} => tpc'[i] = tpc[i]
    /\ (tpc'[i] # tpc[i] /\ tpc'[i] # "failed") =>
         Rank(tpc'[i]) = Rank(tpc[i]) + 1

\* C17: for each target the steps occur in the fixed order resolve tip and
\* create branch -> checkout -> apply (clean or conflicted) -> stage ->
\* commit; each step runs at most once, none is retried, none is skipped on
\* the way to Committed, and no transition is undone.
C17_StepOrder == []StepsInOrder /\ [][NoStepBack]_vars

C17_Witness ==
  /\ N = 2
  /\ tpc[1] = "committed"
  /\ tpc[2] = "committed"
  /\ applyResult[2] = "conflict"

\* C18: within one run, the commit made for a target is created on that
\* target's own derived branch, its only parent is the tip of
\* origin/<target> resolved for the branch creation, and its message is
\* "Backport PR #<number> to <target>", a blank line and the consolidated
\* message, the same text as the body of the target's issue.
C18_CommitOnOwnBranch ==
  /\ \A k \in 1..Len(commitsMade) :
       LET c == commitsMade[k] IN
       /\ c.ref = PrefixedName(c.i)
       /\ c.commit.parent = [tip |-> "origin/" \o branches[c.i]]
       /\ c.commit.message =
            <<"Backport PR #" \o number \o " to " \o branches[c.i], "">>
              \o baseCommitMessage
       /\ localBranches[PrefixedName(c.i)] = c.commit
  /\ \A j \in 1..Len(issues) :
       \E k \in 1..Len(commitsMade) :
         /\ commitsMade[k].i = issues[j].i
         /\ commitsMade[k].commit.message = issues[j].params.body

C18_Witness ==
  /\ N = 2
  /\ Len(commitsMade) = 2
  /\ Len(issues) = 2
  /\ Len(commits) = 2

IssuesOf(i) == {k \in 1..Len(issues) : issues[k].i = i}
PullRequestsOf(i) == {k \in 1..Len(prs) : prs[k].head = PrefixedName(i)}

\* C20: a target's pull request is created only after the target's issue;
\* it references that issue's number, its head is the target's derived
\* branch and its base the target branch; a target whose issue creation
\* failed gets no pull request; every issue is assigned to the login of the
\* user who merged the original PR.
C20_PullRequestAfterIssue ==
  /\ \A k \in 1..Len(prs) :
       \E j \in 1..Len(issues) :
         /\ prs[k].issue = issues[j].number
         /\ prs[k].base = branches[issues[j].i]
         /\ prs[k].head = PrefixedName(issues[j].i)
  /\ \A i \in Idx :
       /\ Cardinality(IssuesOf(i)) <= 1
       /\ Cardinality(PullRequestsOf(i)) <= Cardinality(IssuesOf(i))
       /\ pub[i] \in {"wait", "issue"} => IssuesOf(i) = {}
       /\ pub[i] \in {"pr", "done"} => Cardinality(IssuesOf(i)) = 1
       /\ pub[i] = "done" <=> Cardinality(PullRequestsOf(i)) = 1
  /\ Len(prs) <= Len(issues)
  /\ \A j, k \in 1..Len(issues) :
       j # k => issues[j].number # issues[k].number
  /\ \A j \in 1..Len(issues) :
       issues[j].params.assignee = info.merged_by.login

C20_Witness ==
  /\ N = 2
  /\ Len(issues) = 1
  /\ Len(prs) = 1
  /\ \E i \in Idx : pub[i] = "failed"

IsPrefix(s, t) == Len(s) <= Len(t) /\ SubSeq(t, 1, Len(s)) = s

NonDestructiveOps ==
  TargetOps \cup {"openOrClone", "fetch", "getRemote", "push"}

\* what exists is kept by every step: branches stay, a branch's commit is
\* kept or becomes the parent of its new commit, commits, pushed refs,
\* issues and pull requests are only added
NothingRetracted ==
  /\ DOMAIN localBranches \subseteq DOMAIN localBranches'
  /\ \A b \in DOMAIN localBranches :
       \/ localBranches'[b] = localBranches[b]
       \/ localBranches'[b].parent = localBranches[b]
  /\ IsPrefix(commitsMade, commitsMade')
  /\ remoteRefs \subseteq remoteRefs'
  /\ IsPrefix(issues, issues')
  /\ IsPrefix(prs, prs')
  /\ IsPrefix(repoLog, repoLog')

\* a step that emits the error leaves all of it as it was
FailureKeepsAll ==
  emitted' # emitted =>
    /\ UNCHANGED <<localBranches, HEAD, commitsMade, remoteRefs, issues, prs>>
    /\ repoLog' = repoLog

\* C19: no rollback on failure: after a fatal error every derived branch
\* created locally still exists, every commit made is still on its branch,
\* every pushed branch is still on the remote and every issue created still
\* exists; the failing run performs no delete, reset or retraction.
C19_NoRollback ==
  /\ [][NothingRetracted /\ FailureKeepsAll]_vars
  /\ [](\A k \in 1..Len(repoLog) : repoLog[k].op \in NonDestructiveOps)

C19_Witness ==
  /\ N = 2
  /\ emitted = <<"push failed">>
  /\ ppc[1] = "ok"
  /\ ppc[2] = "failed"
  /\ Len(commitsMade) = 2
  /\ Cardinality(DOMAIN localBranches) = 3
  /\ Cardinality(remoteRefs) = 1

(* ------------------------------ C16 ------------------------------------ *)
\* the derived branch of the invocation that made commit record c
OwnBranch(c) == IF c.i = 0 THEN OtherBranch ELSE PrefixedName(c.i)

\* C16: two overlapping invocations share one checkout and are never
\* interleaved: in particular every commit of an invocation lands on that
\* invocation's own derived branch, never on a branch another invocation
\* checked out meanwhile.
C16_NoForeignCommit ==
  \A k \in 1..Len(commitsMade) : commitsMade[k].ref = OwnBranch(commitsMade[k])

====
